---- MODULE Spec2Model ----
(***************************************************************************)
(* Sale / debt ledger of the back-office API: SaleService.create_sale,     *)
(* SaleService.pay_debt, SaleService.cancel_sale (services/sale_service.py)*)
(* the client-level process_debt_payment and get_client_debt_history       *)
(* endpoints (api/sales.py) and ClientService.update_client_debt, over the *)
(* committed rows of the relational store.                                 *)
(*                                                                         *)
(* Money is counted in the smallest stored unit (Numeric(10, 2): cents),   *)
(* so amounts are integers; request amounts may be negative because the    *)
(* request schemas put no constraint on them.                              *)
(*                                                                         *)
(* Requests run one at a time.  A handler that commits more than once is   *)
(* one step per commit: the state between two steps is exactly what the    *)
(* store holds, and what any other request would read, at that point.      *)
(***************************************************************************)
EXTENDS Integers, Sequences, FiniteSets, TLC

(***************************************************************************)
(* Bounds of the model.                                                    *)
(***************************************************************************)
MaxTxns == 2         \* transaction rows the store may hold
MaxDebt == 2         \* cap on a client's debt_amount

(***************************************************************************)
(* The catalog and the client registry (external collaborators): which     *)
(* rows exist, and the values requests are drawn from.  Receipt numbers    *)
(* are only ever compared for equality, so a generated number is either    *)
(* the number of a stored sale or a number no stored sale has.             *)
(***************************************************************************)
NoClient == 0                            \* client_id: Optional[int] = None
Variants == {1}                          \* ids of the ProductVariant rows
SaleIds  == {1, 2}                       \* ids the store hands out to Sale rows
ClientIdInputs  == {NoClient, 1, 2, 3}   \* client_id of a request
VariantIdInputs == {1, 2}                \* 2 names no ProductVariant row
SaleIdInputs    == {1, 2, 3}             \* 3 names no Sale row
Quantities  == {-1, 1}                   \* quantity: int, unconstrained
UnitPrices  == {2}                       \* unit_price: Decimal
PaidAmounts == {-2, 0, 2}                \* paid_amount: Decimal, unconstrained
PaymentAmounts == {-2, 2}                \* pay_debt's payment_amount: Decimal
DebtPaymentAmounts == {-2, 2}            \* DebtPaymentRequest.payment_amount
DebtAmounts == {0, 2}                    \* ClientDebtUpdate.debt_amount, ge=0

InitStock == [v \in Variants |-> 1]

VARIABLES
    stock,      \* ProductVariant.stock_quantity, by variant id
    debt,       \* Client.debt_amount, by client id
    sales,      \* the Sale rows with their SaleItems; Sale.id is the index
    txns,       \* the Transaction rows; Transaction.id is the index
    pc,         \* where the request being served stands
    req,        \* the data the request being served carries between commits
    last,       \* the last request step and its outcome
    other       \* a create_sale served by a second worker at the same time

vars == <<stock, debt, sales, txns, pc, req, last, other>>
db   == <<stock, debt, sales, txns>>

Clients == DOMAIN debt                   \* ids of the Client rows


(***************************************************************************)
(* Rows and requests.                                                      *)
(***************************************************************************)
ItemData == [product_variant_id : VariantIdInputs,
             quantity : Quantities,
             unit_price : UnitPrices]

ItemLists ==
    {<<>>} \cup {<<a>> : a \in ItemData} \cup {<<a, b>> : a, b \in ItemData}

NoReq == [client_id |-> NoClient, paid_amount |-> 0, total_amount |-> 0,
          status |-> "none", items |-> <<>>, stock_seen |-> InitStock]

NoOther == [pc |-> "idle", req |-> NoReq]

(* What a request answers; data is the list a query returns. *)
Outcome(op, result, sale_id, client_id, amount) ==
    [op |-> op, result |-> result, sale_id |-> sale_id,
     client_id |-> client_id, amount |-> amount, data |-> <<>>]

(***************************************************************************)
(* The Transaction model and the keyword arguments each handler passes to  *)
(* its constructor.  The declarative constructor rejects a keyword that is *)
(* no attribute of the class, and the insert needs every NOT NULL column   *)
(* that has no default.                                                    *)
(***************************************************************************)
TransactionColumns ==
    {"id", "user_id", "amount", "description", "transaction_type",
     "sale_id", "client_id", "created_at", "sale", "client"}

TransactionRequired == {"user_id", "amount", "transaction_type"}

SaleTxnKwargs ==
    {"transaction_type", "amount", "description", "sale_id", "client_id", "user_id"}

PayDebtTxnKwargs ==
    {"transaction_type", "amount", "description", "sale_id", "client_id", "user_id"}

RefundTxnKwargs ==
    {"type", "amount", "description", "sale_id", "client_id", "reference_number"}

(* Keyword arguments that name the type as cancel_sale does. *)
DebtPaymentTxnKwargsAsRefund ==
    {"client_id", "user_id", "amount", "type", "description", "created_at"}

DebtPaymentTxnKwargs ==
    {"client_id", "user_id", "amount", "transaction_type", "description", "created_at"}

TransactionAccepted(kwargs) ==
    /\ kwargs \subseteq TransactionColumns
    /\ TransactionRequired \subseteq kwargs

(* A Transaction row that carries no sale_id. *)
TxnRowUnlinked(type, amount, sale_id, client_id) ==
    [transaction_type |-> type, amount |-> amount,
     sale_id |-> 0, client_id |-> client_id]

TxnRow(type, amount, sale_id, client_id) ==
    [transaction_type |-> type, amount |-> amount,
     sale_id |-> sale_id, client_id |-> client_id]

(* A handler that drops the log and keeps only its own row. *)
ReplaceTransactions(log, transaction) == <<transaction>>

(* db.add(transaction): the row is inserted after the rows the table holds; *)
(* its id and its created_at are later than those of every row before it.  *)
AddTransaction(log, transaction) == Append(log, transaction)

(***************************************************************************)
(* create_sale: the validation loop, the total, the status.                *)
(***************************************************************************)
ItemUnitPriceOnly(item) == item.unit_price

ItemTotal(item) == item.unit_price * item.quantity

RECURSIVE TotalAmount(_, _)
TotalAmount(items, i) ==
    IF i > Len(items) THEN 0
    ELSE ItemTotal(items[i]) + TotalAmount(items, i + 1)

RECURSIVE CheckItems(_, _, _)
CheckItems(items, i, stk) ==
    IF i > Len(items) THEN "ok"
    ELSE IF items[i].product_variant_id \notin Variants THEN "VariantNotFound"
    ELSE IF stk[items[i].product_variant_id] < items[i].quantity
         THEN "InsufficientStock"
    ELSE CheckItems(items, i + 1, stk)

PaidExceedsTotal(paid_amount, total_amount) == paid_amount > total_amount

(* The checks of create_sale in the order the code makes them; the last    *)
(* one is line 79 reading `client`, which line 27 binds only for a request *)
(* that names a client.                                                    *)
CreateSaleValidate(client_id, paid_amount, items) ==
    IF client_id # NoClient /\ client_id \notin Clients THEN "ClientNotFound"
    ELSE IF CheckItems(items, 1, stock) # "ok" THEN CheckItems(items, 1, stock)
    ELSE IF PaidExceedsTotal(paid_amount, TotalAmount(items, 1)) THEN "InvalidPayment"
    ELSE IF paid_amount < TotalAmount(items, 1) /\ client_id = NoClient
         THEN "UnboundLocalError"
    ELSE "ok"

CreateStatus(paid_amount, total_amount) ==
    IF paid_amount = 0 THEN "debt"
    ELSE IF paid_amount = total_amount THEN "completed"
    ELSE "partially_paid"

(* A SaleItem row that stores the size of the quantity without its sign. *)
SaleItemRowUnsigned(item) ==
    [product_variant_id |-> item.product_variant_id,
     quantity |-> IF item.quantity < 0 THEN -item.quantity ELSE item.quantity,
     unit_price |-> item.unit_price,
     total_price |-> item.unit_price * item.quantity]

SaleItemRow(item) ==
    [product_variant_id |-> item.product_variant_id,
     quantity |-> item.quantity,
     unit_price |-> item.unit_price,
     total_price |-> ItemTotal(item)]

(* A stock update that stops at zero. *)
RECURSIVE DecrementStockClamped(_, _, _)
DecrementStockClamped(stk, items, i) ==
    IF i > Len(items) THEN stk
    ELSE DecrementStockClamped(
             [stk EXCEPT ![items[i].product_variant_id] =
                 IF @ - items[i].quantity < 0 THEN 0 ELSE @ - items[i].quantity],
             items, i + 1)

RECURSIVE DecrementStock(_, _, _)
DecrementStock(stk, items, i) ==
    IF i > Len(items) THEN stk
    ELSE DecrementStock(
             [stk EXCEPT ![items[i].product_variant_id] = @ - items[i].quantity],
             items, i + 1)

ReceiptTaken(r) == \E i \in DOMAIN sales : sales[i].receipt_number = r

InitWith(client_ids, stored_sales) ==
    /\ stock = InitStock
    /\ debt = [c \in client_ids |-> 0]
    /\ sales = stored_sales
    /\ txns = <<>>
    /\ pc = "idle"
    /\ req = NoReq
    /\ last = Outcome("none", "none", 0, NoClient, 0)
    /\ other = NoOther

Init == InitWith({1}, <<>>)

(* The request ends in an exception: nothing of its session is committed. *)
Fail(op, result, sale_id) ==
    /\ last' = Outcome(op, result, sale_id, NoClient, 0)
    /\ pc' = "idle"
    /\ req' = NoReq
    /\ UNCHANGED <<db, other>>

(* The create_sale requests that stand between their two commits, and the  *)
(* Transaction rows the requests in progress are still to insert.          *)
PendingInserts ==
    (IF pc = "create_insert" THEN 1 ELSE 0)
    + (IF other.pc = "create_insert" THEN 1 ELSE 0)

PendingTransactions ==
    (IF pc = "create_insert" /\ req.paid_amount > 0 THEN 1 ELSE 0)
    + (IF pc = "debt_payment_insert" THEN 1 ELSE 0)
    + (IF other.pc = "create_insert" /\ other.req.paid_amount > 0 THEN 1 ELSE 0)
    + (IF other.pc = "pay_debt_commit" THEN 1 ELSE 0)

TxnRoom == Len(txns) + PendingTransactions < MaxTxns

(* The locals of create_sale after line 75; stock_seen is the              *)
(* stock_quantity held by the ProductVariant objects loaded at line 39.    *)
CreateSaleRequest(client_id, paid_amount, items) ==
    [client_id |-> client_id,
     paid_amount |-> paid_amount,
     total_amount |-> TotalAmount(items, 1),
     status |-> CreateStatus(paid_amount, TotalAmount(items, 1)),
     items |-> items,
     stock_seen |-> stock]

(* A debt increment of the whole total. *)
DebtAfterCreateWholeTotal(client_id, paid_amount, total_amount) ==
    IF paid_amount < total_amount
    THEN [debt EXCEPT ![client_id] = @ + total_amount]
    ELSE debt

(* Lines 78-79. *)
DebtAfterCreate(client_id, paid_amount, total_amount) ==
    IF paid_amount < total_amount
    THEN [debt EXCEPT ![client_id] = @ + (total_amount - paid_amount)]
    ELSE debt

DebtRoom(client_id, paid_amount, total_amount) ==
    paid_amount < total_amount
        => debt[client_id] + (total_amount - paid_amount) <= MaxDebt

(* Lines 70-80: the status, then the debt increment and its commit. *)
CreateSaleDebtCommit(client_id, paid_amount, items) ==
    LET total_amount == TotalAmount(items, 1)
    IN  /\ paid_amount > 0 => TxnRoom
        /\ DebtRoom(client_id, paid_amount, total_amount)
        /\ debt' = DebtAfterCreate(client_id, paid_amount, total_amount)
        /\ req' = CreateSaleRequest(client_id, paid_amount, items)
        /\ pc' = "create_insert"
        /\ last' = Outcome("create_sale", "in_progress", 0, client_id, paid_amount)
        /\ UNCHANGED <<stock, sales, txns, other>>

(* A create_sale whose debt update and commit run ahead of the payment check. *)
CreateSaleBeginEager(client_id, paid_amount, items) ==
    /\ pc = "idle"
    /\ Len(sales) + PendingInserts + 1 \in SaleIds
    /\ LET result == CreateSaleValidate(client_id, paid_amount, items)
       IN  IF result = "InvalidPayment" /\ client_id # NoClient
           THEN /\ debt' = [debt EXCEPT ![client_id] =
                               @ + (TotalAmount(items, 1) - paid_amount)]
                /\ last' = Outcome("create_sale", result, 0, NoClient, 0)
                /\ UNCHANGED <<stock, sales, txns, pc, req, other>>
           ELSE IF result # "ok"
           THEN Fail("create_sale", result, 0)
           ELSE CreateSaleDebtCommit(client_id, paid_amount, items)

(* create_sale up to its first commit: lines 26-80. *)
CreateSaleBegin(client_id, paid_amount, items) ==
    /\ pc = "idle"
    /\ Len(sales) + PendingInserts + 1 \in SaleIds
    /\ LET result == CreateSaleValidate(client_id, paid_amount, items)
       IN  IF result # "ok"
           THEN Fail("create_sale", result, 0)
           ELSE CreateSaleDebtCommit(client_id, paid_amount, items)

(* The stock_quantity line 109 subtracts from.  The commit of line 80       *)
(* expires the objects of the session, so a request that made it reads the *)
(* committed row again; a request that did not still holds what it loaded  *)
(* at line 39.                                                             *)
StockAtInsert(r) ==
    IF r.paid_amount < r.total_amount THEN stock ELSE r.stock_seen

(* The insert fails: the unique constraint on receipt_number, or the       *)
(* Transaction constructor.                                                *)
InsertRejected(r, receipt_number) ==
    \/ ReceiptTaken(receipt_number)
    \/ (r.paid_amount > 0 /\ ~TransactionAccepted(SaleTxnKwargs))

(* Lines 84-124: the Sale row, its items, the stock, the Transaction, and  *)
(* the commit.                                                             *)
CommitSale(r, receipt_number) ==
    LET sale_id == Len(sales) + 1
        db_sale == [receipt_number |-> receipt_number,
                    client_id |-> r.client_id,
                    total_amount |-> r.total_amount,
                    paid_amount |-> r.paid_amount,
                    status |-> r.status,
                    items |-> [i \in DOMAIN r.items |-> SaleItemRow(r.items[i])]]
    IN  /\ sales' = Append(sales, db_sale)
        /\ stock' = DecrementStock(StockAtInsert(r), r.items, 1)
        /\ txns' = IF r.paid_amount > 0
                   THEN AddTransaction(txns, TxnRow("sale", r.paid_amount,
                                                    sale_id, r.client_id))
                   ELSE txns
        /\ last' = Outcome("create_sale", "ok", sale_id, r.client_id, r.paid_amount)
        /\ UNCHANGED debt

(* create_sale from the receipt number to its final commit: lines 83-126. *)
CreateSaleInsert ==
    /\ pc = "create_insert"
    /\ \E receipt_number \in 1..(Len(sales) + 1) :
         IF InsertRejected(req, receipt_number)
         THEN Fail("create_sale", "IntegrityError", 0)
         ELSE /\ CommitSale(req, receipt_number)
              /\ pc' = "idle"
              /\ req' = NoReq
              /\ UNCHANGED other

(***************************************************************************)
(* pay_debt: one commit.                                                   *)
(***************************************************************************)
IsCancelledNever(sale) == FALSE

IsCancelled(sale) == sale.status = "cancelled"

AlreadyPaidNever(sale) == FALSE

AlreadyPaid(sale) == sale.status = "completed"

ExceedsRemainingNever(payment_amount, remaining_debt) == FALSE

ExceedsRemaining(payment_amount, remaining_debt) == payment_amount > remaining_debt

PayStatusAlwaysPartial(paid_amount, total_amount) == "partially_paid"

PayStatus(paid_amount, total_amount) ==
    IF paid_amount = total_amount THEN "completed" ELSE "partially_paid"

(* A pay_debt that also takes the payment off the client's debt_amount. *)
PayDebtReconciling(sale_id, payment_amount) ==
    /\ pc = "idle"
    /\ sale_id \in DOMAIN sales
    /\ sales[sale_id].client_id \in Clients
    /\ debt[sales[sale_id].client_id] - payment_amount \in 0..MaxDebt
    /\ debt' = [debt EXCEPT ![sales[sale_id].client_id] = @ - payment_amount]
    /\ last' = Outcome("pay_debt", "ok", sale_id, sales[sale_id].client_id,
                       payment_amount)
    /\ UNCHANGED <<stock, sales, txns, pc, req, other>>

PayDebt(sale_id, payment_amount) ==
    /\ pc = "idle"
    /\ IF sale_id \notin DOMAIN sales
       THEN Fail("pay_debt", "NotFound", 0)
       ELSE LET sale == sales[sale_id]
                remaining_debt == sale.total_amount - sale.paid_amount
                paid_amount == sale.paid_amount + payment_amount
            IN  IF IsCancelled(sale)
                THEN Fail("pay_debt", "CancelledSale", sale_id)
                ELSE IF AlreadyPaid(sale)
                THEN Fail("pay_debt", "AlreadyPaid", sale_id)
                ELSE IF ExceedsRemaining(payment_amount, remaining_debt)
                THEN Fail("pay_debt", "ExceedsDebt", sale_id)
                ELSE IF ~TransactionAccepted(PayDebtTxnKwargs)
                THEN Fail("pay_debt", "TypeError", sale_id)
                ELSE /\ TxnRoom
                     /\ sales' = [sales EXCEPT ![sale_id] =
                                     [@ EXCEPT !.paid_amount = paid_amount,
                                               !.status = PayStatus(paid_amount,
                                                              sale.total_amount)]]
                     /\ txns' = AddTransaction(txns,
                                    TxnRow("debt_payment", payment_amount,
                                           sale_id, sale.client_id))
                     /\ last' = Outcome("pay_debt", "ok", sale_id,
                                        sale.client_id, payment_amount)
                     /\ UNCHANGED <<stock, debt, pc, req, other>>

(***************************************************************************)
(* cancel_sale: the stock is restored and the status set in the session,   *)
(* then the refund Transaction is constructed, then the one commit.  A     *)
(* request that ends in an exception closes its session uncommitted.       *)
(***************************************************************************)
RECURSIVE RestoreStock(_, _, _)
RestoreStock(stk, items, i) ==
    IF i > Len(items) THEN stk
    ELSE RestoreStock(
             IF items[i].product_variant_id \in Variants
             THEN [stk EXCEPT ![items[i].product_variant_id] = @ + items[i].quantity]
             ELSE stk,
             items, i + 1)

AlreadyCancelledNever(sale) == FALSE

AlreadyCancelled(sale) == sale.status = "cancelled"

CancelSale(sale_id) ==
    /\ pc = "idle"
    /\ IF sale_id \notin DOMAIN sales
       THEN Fail("cancel_sale", "NotFound", 0)
       ELSE LET sale == sales[sale_id]
            IN  IF AlreadyCancelled(sale)
                THEN Fail("cancel_sale", "AlreadyCancelled", sale_id)
                ELSE IF ~TransactionAccepted(RefundTxnKwargs)
                THEN Fail("cancel_sale", "TypeError", sale_id)
                ELSE /\ TxnRoom
                     /\ stock' = RestoreStock(stock, sale.items, 1)
                     /\ sales' = [sales EXCEPT ![sale_id].status = "cancelled"]
                     /\ txns' = AddTransaction(txns,
                                    TxnRow("refund", -sale.total_amount,
                                           sale_id, sale.client_id))
                     /\ last' = Outcome("cancel_sale", "ok", sale_id, sale.client_id, 0)
                     /\ UNCHANGED <<debt, pc, req, other>>

(***************************************************************************)
(* process_debt_payment (POST /sales/debt-payment): two commits.           *)
(***************************************************************************)
ExceedsDebtAmountNever(debt_amount, payment_amount) == FALSE

ExceedsDebtAmount(debt_amount, payment_amount) == debt_amount < payment_amount

ProcessDebtPaymentBegin(client_id, payment_amount) ==
    /\ pc = "idle"
    /\ IF client_id \notin Clients
       THEN Fail("process_debt_payment", "ClientNotFound", 0)
       ELSE IF ExceedsDebtAmount(debt[client_id], payment_amount)
       THEN Fail("process_debt_payment", "ExceedsDebt", 0)
       ELSE /\ TxnRoom
            /\ debt[client_id] - payment_amount <= MaxDebt
            /\ debt' = [debt EXCEPT ![client_id] = @ - payment_amount]
            /\ req' = [NoReq EXCEPT !.client_id = client_id,
                                    !.paid_amount = payment_amount]
            /\ pc' = "debt_payment_insert"
            /\ last' = Outcome("process_debt_payment", "in_progress", 0,
                               client_id, payment_amount)
            /\ UNCHANGED <<stock, sales, txns, other>>

ProcessDebtPaymentInsert ==
    /\ pc = "debt_payment_insert"
    /\ IF ~TransactionAccepted(DebtPaymentTxnKwargs)
       THEN Fail("process_debt_payment", "TypeError", 0)
       ELSE /\ txns' = AddTransaction(txns, TxnRow("debt_payment", req.paid_amount,
                                                   0, req.client_id))
            /\ last' = Outcome("process_debt_payment", "ok", 0,
                               req.client_id, req.paid_amount)
            /\ pc' = "idle"
            /\ req' = NoReq
            /\ UNCHANGED <<stock, debt, sales, other>>

(***************************************************************************)
(* update_client_debt (PATCH /clients/{client_id}/debt): the debt_amount   *)
(* of the request replaces the stored one.                                 *)
(***************************************************************************)
UpdateClientDebt(client_id, debt_amount) ==
    /\ pc = "idle"
    /\ IF client_id \notin Clients
       THEN Fail("update_client_debt", "ClientNotFound", 0)
       ELSE /\ debt' = [debt EXCEPT ![client_id] = debt_amount]
            /\ last' = Outcome("update_client_debt", "ok", 0, client_id, debt_amount)
            /\ UNCHANGED <<stock, sales, txns, pc, req, other>>

(***************************************************************************)
(* get_client_debt_history (GET /sales/client/{client_id}/debt-history).   *)
(* The query orders the client's Transactions by created_at descending;    *)
(* a row inserted later has the later created_at, so that is the order of  *)
(* descending position in the log.                                         *)
(***************************************************************************)
RECURSIVE ClientTransactions(_, _)
ClientTransactions(client_id, i) ==
    IF i = 0 THEN <<>>
    ELSE (IF txns[i].client_id = client_id THEN <<i>> ELSE <<>>)
         \o ClientTransactions(client_id, i - 1)

(* A balance that counts every Transaction as a sale. *)
BalanceAfterAnyType(balance, transaction) == balance + transaction.amount

BalanceAfter(balance, transaction) ==
    IF transaction.transaction_type = "sale" THEN balance + transaction.amount
    ELSE IF transaction.transaction_type = "debt_payment"
         THEN balance - transaction.amount
    ELSE balance

RECURSIVE DebtHistory(_, _, _)
DebtHistory(transactions, k, balance) ==
    IF k > Len(transactions) THEN <<>>
    ELSE LET transaction == txns[transactions[k]]
             new_balance == BalanceAfter(balance, transaction)
         IN  <<[id |-> transactions[k],
                type |-> transaction.transaction_type,
                amount |-> transaction.amount,
                balance |-> new_balance]>>
             \o DebtHistory(transactions, k + 1, new_balance)

GetClientDebtHistory(client_id) ==
    /\ pc = "idle"
    /\ IF client_id \notin Clients
       THEN Fail("get_client_debt_history", "ClientNotFound", 0)
       ELSE /\ last' = [Outcome("get_client_debt_history", "ok", 0, client_id, 0)
                           EXCEPT !.data =
                               DebtHistory(ClientTransactions(client_id, Len(txns)),
                                           1, 0)]
            /\ UNCHANGED <<db, pc, req, other>>

Next ==
    \/ \E client_id \in ClientIdInputs, paid_amount \in PaidAmounts, items \in ItemLists :
           CreateSaleBegin(client_id, paid_amount, items)
    \/ CreateSaleInsert
    \/ \E sale_id \in SaleIdInputs, payment_amount \in PaymentAmounts :
           PayDebt(sale_id, payment_amount)
    \/ \E sale_id \in SaleIdInputs : CancelSale(sale_id)
    \/ \E client_id \in ClientIdInputs \ {NoClient},
          payment_amount \in DebtPaymentAmounts :
           ProcessDebtPaymentBegin(client_id, payment_amount)
    \/ ProcessDebtPaymentInsert
    \/ \E client_id \in ClientIdInputs \ {NoClient}, debt_amount \in DebtAmounts :
           UpdateClientDebt(client_id, debt_amount)
    \/ \E client_id \in ClientIdInputs \ {NoClient} :
           GetClientDebtHistory(client_id)

(* The service over an empty sales table, with one Client row. *)
Spec == Init /\ [][Next]_vars

(***************************************************************************)
(* A second worker serving create_sale at the same time, with a session of *)
(* its own.  Each step is still one commit, so the steps of the two        *)
(* workers interleave at the commits.                                      *)
(***************************************************************************)
OtherClientIds   == {1}
OtherPaidAmounts == {0, 2}
OtherItemLists   ==
    {<<[product_variant_id |-> 1, quantity |-> 1, unit_price |-> 2]>>}

OtherFail(result) ==
    /\ last' = Outcome("create_sale", result, 0, NoClient, 0)
    /\ other' = NoOther
    /\ UNCHANGED <<db, pc, req>>

(* create_sale up to its first commit: lines 26-80. *)
OtherCreateSaleBegin(client_id, paid_amount, items) ==
    /\ other.pc = "idle"
    /\ Len(sales) + PendingInserts + 1 \in SaleIds
    /\ LET result == CreateSaleValidate(client_id, paid_amount, items)
           total_amount == TotalAmount(items, 1)
       IN  IF result # "ok"
           THEN OtherFail(result)
           ELSE /\ paid_amount > 0 => TxnRoom
                /\ DebtRoom(client_id, paid_amount, total_amount)
                /\ debt' = DebtAfterCreate(client_id, paid_amount, total_amount)
                /\ other' = [pc |-> "create_insert",
                             req |-> CreateSaleRequest(client_id, paid_amount, items)]
                /\ last' = Outcome("create_sale", "in_progress", 0,
                                   client_id, paid_amount)
                /\ UNCHANGED <<stock, sales, txns, pc, req>>

(* create_sale from the receipt number to its final commit: lines 83-126. *)
OtherCreateSaleInsert ==
    /\ other.pc = "create_insert"
    /\ \E receipt_number \in 1..(Len(sales) + 1) :
         IF InsertRejected(other.req, receipt_number)
         THEN OtherFail("IntegrityError")
         ELSE /\ CommitSale(other.req, receipt_number)
              /\ other' = NoOther
              /\ UNCHANGED <<pc, req>>

NextConcurrent ==
    \/ Next
    \/ \E client_id \in OtherClientIds, paid_amount \in OtherPaidAmounts,
          items \in OtherItemLists :
           OtherCreateSaleBegin(client_id, paid_amount, items)
    \/ OtherCreateSaleInsert

SpecConcurrent == Init /\ [][NextConcurrent]_vars

(***************************************************************************)
(* A second worker serving pay_debt at the same time.  pay_debt loads the  *)
(* Sale (line 257), computes the new paid_amount and status on the loaded  *)
(* object (lines 284-290) and writes those values at its commit (line      *)
(* 303); another worker may commit between the load and the commit.        *)
(***************************************************************************)
OtherSaleIds        == {1}
OtherPaymentAmounts == {2}

(* The checks of lines 258-281 on the Sale as loaded. *)
PayDebtValidate(sale_id, payment_amount) ==
    IF sale_id \notin DOMAIN sales THEN "NotFound"
    ELSE IF IsCancelled(sales[sale_id]) THEN "CancelledSale"
    ELSE IF AlreadyPaid(sales[sale_id]) THEN "AlreadyPaid"
    ELSE IF ExceedsRemaining(payment_amount,
                             sales[sale_id].total_amount - sales[sale_id].paid_amount)
         THEN "ExceedsDebt"
    ELSE "ok"

(* pay_debt up to the end of its checks: lines 257-281. *)
OtherPayDebtLoad(sale_id, payment_amount) ==
    /\ other.pc = "idle"
    /\ LET result == PayDebtValidate(sale_id, payment_amount)
       IN  IF result # "ok"
           THEN /\ last' = Outcome("pay_debt", result, 0, NoClient, 0)
                /\ UNCHANGED <<db, pc, req, other>>
           ELSE /\ TxnRoom
                /\ other' = [pc |-> "pay_debt_commit",
                             req |-> [sale_id |-> sale_id,
                                      payment_amount |-> payment_amount,
                                      paid_amount |-> sales[sale_id].paid_amount,
                                      total_amount |-> sales[sale_id].total_amount,
                                      client_id |-> sales[sale_id].client_id]]
                /\ last' = Outcome("pay_debt", "in_progress", sale_id,
                                   sales[sale_id].client_id, payment_amount)
                /\ UNCHANGED <<db, pc, req>>

(* pay_debt from the update of the loaded object to the commit: lines 284-303. *)
OtherPayDebtCommit ==
    /\ other.pc = "pay_debt_commit"
    /\ LET r == other.req
           paid_amount == r.paid_amount + r.payment_amount
       IN  /\ sales' = [sales EXCEPT ![r.sale_id] =
                           [@ EXCEPT !.paid_amount = paid_amount,
                                     !.status = PayStatus(paid_amount, r.total_amount)]]
           /\ txns' = AddTransaction(txns, TxnRow("debt_payment", r.payment_amount,
                                                  r.sale_id, r.client_id))
           /\ last' = Outcome("pay_debt", "ok", r.sale_id, r.client_id,
                              r.payment_amount)
           /\ other' = NoOther
           /\ UNCHANGED <<stock, debt, pc, req>>

NextConcurrentPay ==
    \/ Next
    \/ \E sale_id \in OtherSaleIds, payment_amount \in OtherPaymentAmounts :
           OtherPayDebtLoad(sale_id, payment_amount)
    \/ OtherPayDebtCommit

SpecConcurrentPay == Init /\ [][NextConcurrentPay]_vars

(* The same with two Client rows. *)
InitTwoClients == InitWith({1, 2}, <<>>)

SpecTwoClients == InitTwoClients /\ [][Next]_vars

(* The handlers that write Client.debt_amount (create_sale and             *)
(* process_debt_payment), over two Client rows.                            *)
NextLedger ==
    \/ \E client_id \in ClientIdInputs, paid_amount \in PaidAmounts, items \in ItemLists :
           CreateSaleBegin(client_id, paid_amount, items)
    \/ CreateSaleInsert
    \/ \E client_id \in ClientIdInputs \ {NoClient},
          payment_amount \in DebtPaymentAmounts :
           ProcessDebtPaymentBegin(client_id, payment_amount)
    \/ ProcessDebtPaymentInsert

SpecLedger == InitTwoClients /\ [][NextLedger]_vars

(***************************************************************************)
(* The service over a store that already holds Sale rows, one of them      *)
(* cancelled (SaleStatus.CANCELLED is a value of the status column; the    *)
(* handlers test for it).                                                  *)
(***************************************************************************)
StoredItem == [product_variant_id |-> 1, quantity |-> 1, unit_price |-> 2]

StoredSale(paid_amount) ==
    [receipt_number |-> 1, client_id |-> 1,
     total_amount |-> TotalAmount(<<StoredItem>>, 1),
     paid_amount |-> paid_amount,
     status |-> "cancelled",
     items |-> <<SaleItemRow(StoredItem)>>]

InitStored == \E paid_amount \in {0, 2} : InitWith({1}, <<StoredSale(paid_amount)>>)

SpecStored == InitStored /\ [][Next]_vars

(***************************************************************************)
(* The service over a store that already holds Transaction rows of the     *)
(* client, refunds among them (TransactionType.REFUND is a value of the    *)
(* transaction_type column).                                               *)
(***************************************************************************)
StoredLogs ==
    {<<>>,
     <<TxnRow("refund", -2, 0, 1)>>,
     <<TxnRow("sale", 2, 0, 1), TxnRow("refund", -2, 0, 1)>>,
     <<TxnRow("refund", -2, 0, 1), TxnRow("debt_payment", 2, 0, 1)>>}

InitLog ==
    \E log \in StoredLogs :
        /\ stock = InitStock
        /\ debt = [c \in {1} |-> 0]
        /\ sales = <<>>
        /\ txns = log
        /\ pc = "idle"
        /\ req = NoReq
        /\ last = Outcome("none", "none", 0, NoClient, 0)
        /\ other = NoOther

SpecLog == InitLog /\ [][Next]_vars


(***************************************************************************)
(* Properties.                                                             *)
(***************************************************************************)
RECURSIVE SumTotalPrice(_, _)
SumTotalPrice(rows, i) ==
    IF i > Len(rows) THEN 0 ELSE rows[i].total_price + SumTotalPrice(rows, i + 1)

RECURSIVE SoldQuantity(_, _, _)
SoldQuantity(rows, i, v) ==
    IF i > Len(rows) THEN 0
    ELSE (IF rows[i].product_variant_id = v THEN rows[i].quantity ELSE 0)
         + SoldQuantity(rows, i + 1, v)

RECURSIVE Outstanding(_, _)
Outstanding(c, i) ==
    IF i > Len(sales) THEN 0
    ELSE (IF sales[i].client_id = c /\ sales[i].status # "cancelled"
          THEN sales[i].total_amount - sales[i].paid_amount ELSE 0)
         + Outstanding(c, i + 1)

ValidationErrors ==
    {"ClientNotFound", "VariantNotFound", "InsufficientStock", "InvalidPayment"}

\* C1: after any sequence of create_sale and cancel_sale calls run one at a
\* time, every ProductVariant has stock_quantity >= 0.
C1_StockNonNegative == \A v \in Variants : stock[v] >= 0

\* C2: every persisted Sale has paid_amount <= total_amount, before and after
\* every pay_debt call, whatever payment_amount is passed.
C2_PaidAtMostTotal ==
    \A i \in DOMAIN sales : sales[i].paid_amount <= sales[i].total_amount

\* C2 witness: a pay_debt was accepted and brought a sale to its total, and the
\* store also holds a sale that is not fully paid.
C2_Witness ==
    /\ last.op = "pay_debt" /\ last.result = "ok"
    /\ sales[last.sale_id].paid_amount = sales[last.sale_id].total_amount
    /\ \E i \in DOMAIN sales : sales[i].paid_amount < sales[i].total_amount

\* C3: for every Sale that is not cancelled, status = completed if and only if
\* paid_amount = total_amount (a total_amount of 0 included).
C3_CompletedIffPaid ==
    \A i \in DOMAIN sales :
        sales[i].status # "cancelled"
            => (sales[i].status = "completed"
                    <=> sales[i].paid_amount = sales[i].total_amount)

\* C4: once every call has completed, each Client's debt_amount equals the sum
\* of total_amount - paid_amount over that client's sales that are not cancelled.
C4_DebtIsOutstanding ==
    pc = "idle" => \A c \in Clients : debt[c] = Outstanding(c, 1)

\* C5: create_sale is atomic: a commit made for create_sale that changes the
\* store adds the Sale row with its items, and the stock decrements, the debt
\* increment and the sale Transaction become visible in that same commit.
C5_CreateSaleAtomic ==
    [][(last'.op = "create_sale" /\ db' # db)
          => /\ Len(sales') = Len(sales) + 1
             /\ LET sale == sales'[Len(sales')]
                IN  /\ \A v \in Variants :
                           stock'[v] = stock[v] - SoldQuantity(sale.items, 1, v)
                    /\ \A c \in Clients :
                           debt'[c] = debt[c]
                               + (IF c = sale.client_id
                                  THEN sale.total_amount - sale.paid_amount ELSE 0)]_vars

\* C6: each persisted SaleItem has total_price = unit_price * quantity and the
\* persisted Sale.total_amount is the sum of total_price over its items.
C6_TotalsAddUp ==
    \A i \in DOMAIN sales :
        /\ \A k \in DOMAIN sales[i].items :
               sales[i].items[k].total_price
                   = sales[i].items[k].unit_price * sales[i].items[k].quantity
        /\ sales[i].total_amount = SumTotalPrice(sales[i].items, 1)

\* C6 witness: a create_sale with two line items of different quantity succeeded.
C6_Witness ==
    /\ last.op = "create_sale" /\ last.result = "ok"
    /\ Len(sales[last.sale_id].items) = 2
    /\ sales[last.sale_id].items[1].quantity # sales[last.sale_id].items[2].quantity

\* C7: a create_sale that fails a validation check (client not found, variant
\* not found, insufficient stock, paid_amount > total_amount) leaves the store
\* unchanged: no Sale, SaleItem or Transaction added, no stock_quantity and no
\* debt_amount changed.
C7_FailedCreateChangesNothing ==
    [][(last'.op = "create_sale" /\ last'.result \in ValidationErrors)
          => UNCHANGED <<stock, debt, sales, txns>>]_vars

\* C7 witness: a create_sale was refused for insufficient stock while the store
\* held a sale and a client owed money.
C7_Witness ==
    /\ last.op = "create_sale" /\ last.result = "InsufficientStock"
    /\ Len(sales) > 0
    /\ \E c \in Clients : debt[c] > 0

\* C8: cancelled is terminal and completed is only left by cancel: a cancelled
\* Sale stays cancelled, a completed Sale changes to no status but cancelled,
\* and a pay_debt on a completed or cancelled Sale leaves its paid_amount and
\* status unchanged.
C8_TerminalStatuses ==
    [][\A i \in DOMAIN sales :
          /\ sales[i].status = "cancelled" => sales'[i].status = "cancelled"
          /\ sales[i].status = "completed"
                 => sales'[i].status \in {"completed", "cancelled"}
          /\ (sales[i].status \in {"completed", "cancelled"} /\ last'.op = "pay_debt")
                 => /\ sales'[i].paid_amount = sales[i].paid_amount
                    /\ sales'[i].status = sales[i].status]_vars

\* C8 witness: pay_debt was refused on a cancelled sale while the store also
\* held a completed one.
C8_Witness ==
    /\ last.op = "pay_debt" /\ last.result = "CancelledSale"
    /\ sales[last.sale_id].paid_amount < sales[last.sale_id].total_amount
    /\ \E i \in DOMAIN sales : sales[i].status = "completed"

\* C9: cancel_sale on a Sale that is already cancelled fails with the
\* invalid-state error and changes nothing: no stock_quantity is incremented
\* again and no further refund Transaction is appended.
C9_CancelCancelledRejected ==
    [][\A i \in DOMAIN sales :
          (sales[i].status = "cancelled" /\ last'.op = "cancel_sale"
                /\ last'.sale_id = i)
             => /\ last'.result = "AlreadyCancelled"
                /\ UNCHANGED <<stock, debt, sales, txns>>]_vars

\* C9 witness: cancel_sale was refused on the cancelled sale.
C9_Witness ==
    /\ last.op = "cancel_sale" /\ last.result = "AlreadyCancelled"
    /\ sales[last.sale_id].status = "cancelled"

\* C10: cancel_sale on a Sale with status debt, partially_paid or completed
\* succeeds and commits: the status becomes cancelled, each variant's
\* stock_quantity grows by the quantities of the Sale's items, and exactly one
\* refund Transaction with amount = -total_amount linked to the sale is appended.
C10_CancelCommits ==
    [][\A i \in DOMAIN sales :
          (sales[i].status \in {"debt", "partially_paid", "completed"}
                /\ last'.op = "cancel_sale" /\ last'.sale_id = i)
             => /\ last'.result = "ok"
                /\ sales'[i].status = "cancelled"
                /\ \A v \in Variants :
                       stock'[v] = stock[v] + SoldQuantity(sales[i].items, 1, v)
                /\ txns' = Append(txns, TxnRow("refund", -sales[i].total_amount,
                                               i, sales[i].client_id))]_vars

\* C11: for every persisted Sale, paid_amount is never negative and never
\* decreases: a Sale is stored with paid_amount >= 0, and no step lowers the
\* paid_amount of a stored Sale.
C11_PaidAmountMonotone ==
    [][\A i \in DOMAIN sales' :
          /\ sales'[i].paid_amount >= 0
          /\ i \in DOMAIN sales => sales'[i].paid_amount >= sales[i].paid_amount]_vars

\* C12: every persisted SaleItem has quantity >= 1.
C12_QuantityPositive ==
    \A i \in DOMAIN sales :
        \A k \in DOMAIN sales[i].items : sales[i].items[k].quantity >= 1

\* C13: every Client has debt_amount >= 0 in every state reached by
\* create_sale, process_debt_payment and update_client_debt calls served one
\* at a time.
C13_DebtNonNegative == \A c \in Clients : debt[c] >= 0

\* C13 witness: a process_debt_payment with a positive amount was accepted and
\* brought the client's debt to zero.
C13_Witness ==
    /\ last.op = "process_debt_payment" /\ last.result = "ok"
    /\ last.amount > 0
    /\ debt[last.client_id] = 0

\* C14: the Transaction log is append-only: every step keeps each stored
\* Transaction as it is, at its place, and removes none.
C14_TransactionsAppendOnly ==
    [][/\ Len(txns') >= Len(txns)
       /\ \A i \in DOMAIN txns : txns'[i] = txns[i]]_vars

\* C14 witness: the log holds a sale Transaction followed by a debt_payment
\* Transaction appended by pay_debt.
C14_Witness ==
    /\ last.op = "pay_debt" /\ last.result = "ok"
    /\ Len(txns) = 2
    /\ txns[1].transaction_type = "sale"
    /\ txns[2].transaction_type = "debt_payment"

(* The client's balance after the first i rows of the log, oldest first. *)
RECURSIVE LedgerBalance(_, _)
LedgerBalance(c, i) ==
    IF i = 0 THEN 0
    ELSE LedgerBalance(c, i - 1)
         + (IF txns[i].client_id # c THEN 0
            ELSE IF txns[i].transaction_type = "sale" THEN txns[i].amount
            ELSE IF txns[i].transaction_type = "debt_payment" THEN -txns[i].amount
            ELSE 0)

HistoryReturned == last.op = "get_client_debt_history" /\ last.result = "ok"

\* C15: get_client_debt_history returns the client's Transactions oldest
\* first, and the balance of each entry is the running balance over the
\* entries up to and including it in that chronological order.
C15_HistoryOldestFirst ==
    HistoryReturned
        => /\ \A k \in 1..(Len(last.data) - 1) :
                  last.data[k].id < last.data[k + 1].id
           /\ \A k \in DOMAIN last.data :
                  last.data[k].balance
                      = LedgerBalance(last.client_id, last.data[k].id)

\* C16: the balance of the last entry get_client_debt_history returns is the
\* sum of the amounts of the client's sale Transactions minus the sum of the
\* amounts of its debt_payment Transactions; Transactions of another type are
\* listed and leave the balance as it is.
C16_FinalBalance ==
    (HistoryReturned /\ last.data # <<>>)
        => /\ last.data[Len(last.data)].balance
                  = LedgerBalance(last.client_id, Len(txns))
           /\ \A i \in DOMAIN txns :
                  txns[i].client_id = last.client_id
                      => \E k \in DOMAIN last.data : last.data[k].id = i
           /\ \A k \in DOMAIN last.data :
                  last.data[k].type \notin {"sale", "debt_payment"}
                      => last.data[k].balance
                             = (IF k = 1 THEN 0 ELSE last.data[k - 1].balance)

\* C16 witness: a history of two entries, one of them a refund, was returned
\* with a final balance that is not zero.
C16_Witness ==
    /\ HistoryReturned
    /\ Len(last.data) = 2
    /\ \E k \in DOMAIN last.data : last.data[k].type = "refund"
    /\ last.data[2].balance # 0

\* C17: a create_sale that fails in persistence after its validation passed
\* (the receipt_number collides with a stored one) retains no partial state:
\* when it ends, the client's debt_amount is what it was before the call.
C17_FailedInsertRestoresDebt ==
    [][(pc = "create_insert" /\ last'.op = "create_sale"
            /\ last'.result = "IntegrityError")
          => \A c \in Clients :
                 debt'[c] = debt[c]
                     - (IF c = req.client_id /\ req.paid_amount < req.total_amount
                        THEN req.total_amount - req.paid_amount ELSE 0)]_vars

(* The request whose insert a step commits. *)
InsertingRequest ==
    IF other.pc = "create_insert" /\ other'.pc = "idle" THEN other.req ELSE req

\* C18: two create_sale calls served at the same time can both pass the stock
\* check and both apply their decrement: every committed insert belongs to a
\* request that passed the check on the stock it read, and a request that
\* re-reads the stock after its first commit subtracts its quantities from
\* the committed stock_quantity without a second check, so the two reach a
\* committed negative stock_quantity (the witness).
C18_CheckThenDecrement ==
    [][(last'.op = "create_sale" /\ last'.result = "ok")
          => LET r == InsertingRequest
                 sale == sales'[Len(sales')]
             IN  /\ \A k \in DOMAIN r.items :
                        r.items[k].quantity
                            <= r.stock_seen[r.items[k].product_variant_id]
                 /\ r.paid_amount < r.total_amount
                        => \A v \in Variants :
                               stock'[v] = stock[v] - SoldQuantity(sale.items, 1, v)]_vars

\* C18 witness: two sales of one unit each of the same variant are committed,
\* one by each worker, and the variant's stock_quantity is negative.
C18_Witness ==
    /\ Len(sales) = 2
    /\ \A i \in DOMAIN sales :
           /\ Len(sales[i].items) = 1
           /\ sales[i].items[1].product_variant_id = 1
           /\ sales[i].items[1].quantity = 1
    /\ stock[1] < 0
    /\ last.op = "create_sale" /\ last.result = "ok"

\* C19: a successful pay_debt(sale_id, payment_amount) raises the Sale's
\* paid_amount by exactly payment_amount, sets its status to completed when
\* the new paid_amount equals total_amount and to partially_paid otherwise,
\* and appends exactly one debt_payment Transaction of that amount carrying
\* the Sale's id and client_id; nothing else in the store changes.
C19_PayDebtEffects ==
    [][(last'.op = "pay_debt" /\ last'.result = "ok")
          => LET i == last'.sale_id
             IN  /\ i \in DOMAIN sales
                 /\ sales'[i].paid_amount = sales[i].paid_amount + last'.amount
                 /\ sales'[i].status
                        = (IF sales'[i].paid_amount = sales[i].total_amount
                           THEN "completed" ELSE "partially_paid")
                 /\ sales' = [sales EXCEPT ![i].paid_amount = sales'[i].paid_amount,
                                           ![i].status = sales'[i].status]
                 /\ txns' = Append(txns, [transaction_type |-> "debt_payment",
                                          amount |-> last'.amount,
                                          sale_id |-> i,
                                          client_id |-> sales[i].client_id])
                 /\ UNCHANGED <<stock, debt>>]_vars

\* C19 witness: a pay_debt of a positive amount was accepted and completed a
\* sale that was stored as a debt.
C19_Witness ==
    /\ last.op = "pay_debt" /\ last.result = "ok" /\ last.amount > 0
    /\ sales[last.sale_id].status = "completed"
    /\ sales[last.sale_id].paid_amount = last.amount
    /\ txns[Len(txns)].transaction_type = "debt_payment"

(* The cases in which pay_debt is to fail. *)
PayDebtRefused(sale_id, payment_amount) ==
    \/ sale_id \notin DOMAIN sales
    \/ sales[sale_id].status = "cancelled"
    \/ sales[sale_id].status = "completed"
    \/ payment_amount > sales[sale_id].total_amount - sales[sale_id].paid_amount

\* C20: pay_debt fails, leaving the store as it is (paid_amount and status
\* unchanged, no Transaction appended), when the sale does not exist, is
\* cancelled, is completed, or payment_amount > total_amount - paid_amount;
\* in every other case it succeeds.
C20_PayDebtRefusals ==
    [][\A sale_id \in SaleIdInputs, payment_amount \in PaymentAmounts :
          PayDebt(sale_id, payment_amount)
              => IF PayDebtRefused(sale_id, payment_amount)
                 THEN /\ last'.op = "pay_debt" /\ last'.result # "ok"
                      /\ UNCHANGED <<stock, debt, sales, txns>>
                 ELSE /\ last'.op = "pay_debt" /\ last'.result = "ok"
                      /\ last'.sale_id = sale_id]_vars

\* C20 witness: pay_debt was refused on a completed sale while the store held
\* a cancelled sale, and the log holds the Transaction of an accepted pay_debt.
C20_Witness ==
    /\ last.op = "pay_debt" /\ last.result = "AlreadyPaid"
    /\ \E i \in DOMAIN sales : sales[i].status = "cancelled"
    /\ \E k \in DOMAIN txns :
           txns[k].transaction_type = "debt_payment" /\ txns[k].sale_id # 0

\* C21: every Sale with status debt has paid_amount = 0 and every Sale with
\* status partially_paid has 0 < paid_amount < total_amount.
C21_StatusMatchesAmounts ==
    \A i \in DOMAIN sales :
        /\ sales[i].status = "debt" => sales[i].paid_amount = 0
        /\ sales[i].status = "partially_paid"
               => /\ 0 < sales[i].paid_amount
                  /\ sales[i].paid_amount < sales[i].total_amount

(* The debt increment the request req asks for, for client c. *)
RequestedDebt(r, c) ==
    IF c = r.client_id /\ r.paid_amount < r.total_amount
    THEN r.total_amount - r.paid_amount ELSE 0

\* C22: a successful create_sale raises its client's debt_amount by exactly
\* total_amount - paid_amount when paid_amount < total_amount, leaves every
\* debt_amount as it is when paid_amount = total_amount, and changes no other
\* client's debt_amount: the step that commits the debt changes it by that
\* amount for that client only, and the step that commits the Sale leaves
\* every debt_amount as it is.
C22_CreateSaleDebt ==
    [][/\ (pc = "idle" /\ pc' = "create_insert")
            => \A c \in Clients : debt'[c] = debt[c] + RequestedDebt(req', c)
       /\ (last'.op = "create_sale" /\ last'.result = "ok")
            => /\ pc = "create_insert"
               /\ debt' = debt
               /\ sales'[Len(sales')].client_id = req.client_id
               /\ sales'[Len(sales')].total_amount = req.total_amount
               /\ sales'[Len(sales')].paid_amount = req.paid_amount]_vars

\* C22 witness: a create_sale for client 2 with nothing paid succeeded while
\* client 1 owed money: client 2 owes the total, client 1 what it owed.
C22_Witness ==
    /\ last.op = "create_sale" /\ last.result = "ok"
    /\ last.client_id = 2 /\ last.amount = 0
    /\ debt[2] = sales[last.sale_id].total_amount
    /\ debt[2] > 0 /\ debt[1] > 0

\* C23: a successful create_sale appends exactly one Transaction, of type sale
\* with amount = paid_amount and the ids of the new Sale and of its client,
\* when paid_amount > 0, and appends no Transaction when paid_amount = 0.
C23_CreateSaleTransaction ==
    [][(last'.op = "create_sale" /\ last'.result = "ok")
          => LET sale_id == Len(sales')
                 sale == sales'[sale_id]
             IN  /\ sale.paid_amount > 0
                        => txns' = Append(txns, [transaction_type |-> "sale",
                                                 amount |-> sale.paid_amount,
                                                 sale_id |-> sale_id,
                                                 client_id |-> sale.client_id])
                 /\ sale.paid_amount = 0 => txns' = txns]_vars

\* C23 witness: the store holds a sale created with paid_amount = 0 and a sale
\* created with paid_amount > 0, and the log holds one Transaction.
C23_Witness ==
    /\ last.op = "create_sale" /\ last.result = "ok"
    /\ Len(sales) = 2 /\ Len(txns) = 1
    /\ sales[1].paid_amount = 0
    /\ sales[2].paid_amount > 0
    /\ txns[1].sale_id = 2

(* The failure the stated order of the checks gives a request. *)
StatedFailure(client_id, paid_amount, items) ==
    IF client_id # NoClient /\ client_id \notin Clients THEN "ClientNotFound"
    ELSE IF \E k \in DOMAIN items : items[k].product_variant_id \notin Variants
         THEN "VariantNotFound"
    ELSE IF \E k \in DOMAIN items :
                stock[items[k].product_variant_id] < items[k].quantity
         THEN "InsufficientStock"
    ELSE IF paid_amount > TotalAmount(items, 1) THEN "InvalidPayment"
    ELSE "none"

\* C24: create_sale reports the first failing precondition in the stated
\* order: a missing client before any item problem, a missing ProductVariant
\* in any item before insufficient stock in any item, insufficient stock
\* before paid_amount > total_amount.
C24_ValidationOrder ==
    [][\A client_id \in ClientIdInputs, paid_amount \in PaidAmounts,
         items \in ItemLists :
          (CreateSaleBegin(client_id, paid_amount, items)
                /\ StatedFailure(client_id, paid_amount, items) # "none")
             => last'.result = StatedFailure(client_id, paid_amount, items)]_vars

\* C25: pay_debt and cancel_sale never change a Client's debt_amount: after
\* either, accepted or refused, every debt_amount is what it was before.
C25_DebtUntouched ==
    [][last'.op \in {"pay_debt", "cancel_sale"} => debt' = debt]_vars

\* C25 witness: a pay_debt was accepted on a sale of a client that owes money,
\* and the client still owes it.
C25_Witness ==
    /\ last.op = "pay_debt" /\ last.result = "ok" /\ last.amount > 0
    /\ last.client_id \in Clients
    /\ debt[last.client_id] > 0

\* C26: process_debt_payment fails with the store unchanged when the client
\* does not exist or payment_amount > debt_amount; otherwise it lowers the
\* client's debt_amount by exactly payment_amount, appends one debt_payment
\* Transaction of that amount with the client's id and no sale_id, and leaves
\* every Sale as it is.
C26_ProcessDebtPayment ==
    [][/\ \A client_id \in ClientIdInputs \ {NoClient},
            payment_amount \in DebtPaymentAmounts :
             ProcessDebtPaymentBegin(client_id, payment_amount)
                 => IF client_id \notin Clients \/ payment_amount > debt[client_id]
                    THEN /\ last'.result \notin {"ok", "in_progress"}
                         /\ UNCHANGED <<stock, debt, sales, txns>>
                    ELSE /\ debt' = [debt EXCEPT ![client_id] = @ - payment_amount]
                         /\ pc' = "debt_payment_insert"
                         /\ req'.client_id = client_id
                         /\ req'.paid_amount = payment_amount
                         /\ UNCHANGED <<stock, sales, txns>>
       /\ pc = "debt_payment_insert"
            => /\ last'.op = "process_debt_payment" /\ last'.result = "ok"
               /\ txns' = Append(txns, [transaction_type |-> "debt_payment",
                                        amount |-> req.paid_amount,
                                        sale_id |-> 0,
                                        client_id |-> req.client_id])
               /\ UNCHANGED <<stock, debt, sales>>]_vars

\* C26 witness: a process_debt_payment of a positive amount was accepted while
\* the store held a sale that is not fully paid.
C26_Witness ==
    /\ last.op = "process_debt_payment" /\ last.result = "ok" /\ last.amount > 0
    /\ txns[Len(txns)].sale_id = 0
    /\ \E i \in DOMAIN sales : sales[i].paid_amount < sales[i].total_amount

\* C27: a create_sale without client_id, whose items all exist with enough
\* stock and whose paid_amount satisfies 0 <= paid_amount <= total_amount,
\* passes its checks and goes on to store the Sale; it never ends in an
\* internal failure.
C27_WalkInSale ==
    [][\A paid_amount \in PaidAmounts, items \in ItemLists :
          (/\ CreateSaleBegin(NoClient, paid_amount, items)
           /\ CheckItems(items, 1, stock) = "ok"
           /\ 0 <= paid_amount /\ paid_amount <= TotalAmount(items, 1))
             => /\ last'.result = "in_progress"
                /\ debt' = debt]_vars

(* The quantity of variant v held by the items of the sales from the i-th  *)
(* on that are not cancelled.                                              *)
RECURSIVE QuantityInSales(_, _)
QuantityInSales(v, i) ==
    IF i > Len(sales) THEN 0
    ELSE (IF sales[i].status # "cancelled"
          THEN SoldQuantity(sales[i].items, 1, v) ELSE 0)
         + QuantityInSales(v, i + 1)

\* C28: stock is conserved by create_sale and cancel_sale served one at a
\* time: for every variant, stock_quantity plus the quantities of the
\* SaleItems of that variant in sales that are not cancelled is the variant's
\* initial stock_quantity.
C28_StockConserved ==
    pc = "idle" => \A v \in Variants : stock[v] + QuantityInSales(v, 1) = InitStock[v]

\* C28 witness: a cancel_sale has been served on a stored sale that holds an
\* item, and the variant's stock_quantity differs from its initial value.
C28_Witness ==
    /\ last.op = "cancel_sale" /\ last.sale_id \in DOMAIN sales
    /\ Len(sales[last.sale_id].items) > 0
    /\ stock[1] # InitStock[1]

(* The amounts of the sale and debt_payment Transactions linked to sale i, *)
(* over the rows of the log from the k-th on.                              *)
RECURSIVE PaidInTransactions(_, _)
PaidInTransactions(i, k) ==
    IF k > Len(txns) THEN 0
    ELSE (IF txns[k].sale_id = i
             /\ txns[k].transaction_type \in {"sale", "debt_payment"}
          THEN txns[k].amount ELSE 0)
         + PaidInTransactions(i, k + 1)

\* C29: for every Sale, the amounts of the sale and debt_payment Transactions
\* linked to it by sale_id add up to its paid_amount.
C29_TransactionsMatchPaid ==
    \A i \in DOMAIN sales : PaidInTransactions(i, 1) = sales[i].paid_amount

\* C30: when two pay_debt calls on one Sale are served at the same time, the
\* committed Sale still has paid_amount <= total_amount and every accepted
\* payment is counted once: the commit of a pay_debt appends one debt_payment
\* Transaction and raises the stored paid_amount by exactly its amount.
C30_ConcurrentPayDebt ==
    [][\A i \in DOMAIN sales :
          /\ sales'[i].paid_amount <= sales'[i].total_amount
          /\ (last'.op = "pay_debt" /\ last'.result = "ok" /\ last'.sale_id = i)
                 => /\ Len(txns') = Len(txns) + 1
                    /\ txns'[Len(txns')].transaction_type = "debt_payment"
                    /\ sales'[i].paid_amount - sales[i].paid_amount
                           = txns'[Len(txns')].amount]_vars

====
